---------------------------- MODULE Spec2Model ----------------------------
(***************************************************************************)
(* Model of the portfolio rebalancer program (programs/rebalancer).        *)
(*                                                                         *)
(* Two kinds of specification live here:                                   *)
(*   - Spec: the on-chain state machine (portfolio account, strategy       *)
(*     accounts, clock) driven by the instruction handlers;                *)
(*   - SpecRisk, SpecScore, SpecThreshold, SpecRank, SpecAlloc: the pure   *)
(*     engine functions, applied to inputs drawn from bounded sets.        *)
(*                                                                         *)
(* TLC integers are 32-bit.  Lamport amounts are kept below 2^31, and      *)
(* every `a * b / c` of the source whose product would not fit is          *)
(* evaluated by MulDiv, which returns the same floor(a*b/c).  The one      *)
(* quantity that must exceed 2^31 (the 100 SOL balance cap of the score)   *)
(* is carried as a two-limb number hi * 10^9 + lo.  The u64 fields of      *)
(* RiskLimits are carried at their full width, as 8 little-endian bytes,   *)
(* so that a product that leaves 64 bits and a narrowing cast that drops   *)
(* bits are computed as the machine computes them.                         *)
(***************************************************************************)
EXTENDS Integers, Sequences, FiniteSets, TLC

VARIABLES
    portfolio,      \* the Portfolio account
    strategies,     \* strategy_id -> Strategy account (registered ones)
    now,            \* Clock::get().unix_timestamp
    last_op,        \* name of the last instruction processed
    last_ok,        \* whether that instruction returned Ok
    cycles,         \* history: one record per successful execute_ranking_cycle, oldest first
    fn,             \* pure harness: the engine function last applied
    args,           \* pure harness: its input
    result,         \* pure harness: its output
    prev_args,      \* pure harness: input of the call before
    prev_result,    \* pure harness: output of the call before
    overflow_checks \* the build: TRUE when `*` panics on overflow, FALSE when it wraps

vars == <<portfolio, strategies, now, last_op, last_ok, cycles,
          fn, args, result, prev_args, prev_result, overflow_checks>>

machine_vars == <<portfolio, strategies, now, last_op, last_ok, cycles, overflow_checks>>
pure_vars == <<fn, args, result, prev_args, prev_result, overflow_checks>>

-----------------------------------------------------------------------------
(* Integer helpers *)

Min(a, b) == IF a < b THEN a ELSE b

Max(a, b) == IF a > b THEN a ELSE b

\* u64/u32 saturating_sub
SatSub(a, b) == IF a > b THEN a - b ELSE 0

\* floor(a * b / c), evaluated without forming a * b
MulDiv(a, b, c) == (a \div c) * b + ((a % c) * b) \div c

RECURSIVE SumSeq(_)
SumSeq(s) == IF s = <<>> THEN 0 ELSE Head(s) + SumSeq(Tail(s))

SeqsUpTo(S, n) == UNION {[1..k -> S] : k \in 0..n}

-----------------------------------------------------------------------------
(* Fixed-width unsigned integers: little-endian sequences of bytes *)

\* the k low bytes of the natural number n
RECURSIVE ToBytes(_, _)
ToBytes(n, k) == IF k = 0 THEN <<>> ELSE <<n % 256>> \o ToBytes(n \div 256, k - 1)

\* a u64 value
U64(n) == ToBytes(n, 8)

\* the number a byte sequence stands for (it must be below 2^31)
RECURSIVE ToNat(_)
ToNat(b) == IF b = <<>> THEN 0 ELSE Head(b) + 256 * ToNat(Tail(b))

\* below 2^16
IsSmall(b) == \A i \in 3..Len(b) : b[i] = 0

\* below 2^(8k): the value survives a narrowing to k bytes
FitsBytes(b, k) == \A i \in (k + 1)..Len(b) : b[i] = 0

\* the narrowing itself: `as u32` is LowBytes(b, 4), a wrapping u64 result is
\* LowBytes(b, 8)
LowBytes(b, k) == SubSeq(b, 1, k)

\* column k (from 0) of the schoolbook product, before carries
BytesColumn(a, b, k) ==
    SumSeq([i \in 1..Len(a) |->
               IF k + 2 - i >= 1 /\ k + 2 - i <= Len(b) THEN a[i] * b[k + 2 - i] ELSE 0])

RECURSIVE BytesMulFrom(_, _, _, _)
BytesMulFrom(a, b, k, carry) ==
    IF k >= Len(a) + Len(b) THEN <<>>
    ELSE LET t == BytesColumn(a, b, k) + carry
         IN  <<t % 256>> \o BytesMulFrom(a, b, k + 1, t \div 256)

\* the full product, Len(a) + Len(b) bytes
BytesMul(a, b) == BytesMulFrom(a, b, 0, 0)

\* remainder of the bytes i..Len(a) of a, as a number, modulo d
RECURSIVE BytesRemFrom(_, _, _)
BytesRemFrom(a, i, d) ==
    IF i > Len(a) THEN 0 ELSE (BytesRemFrom(a, i + 1, d) * 256 + a[i]) % d

\* floor(a / d) for a divisor d below 2^23
BytesDiv(a, d) ==
    [i \in 1..Len(a) |-> (BytesRemFrom(a, i + 1, d) * 256 + a[i]) \div d]

-----------------------------------------------------------------------------
(* Risk adjustment: redistribute_capital.rs, calculate_risk_adjustment *)

\* mutant: volatility is not inverted
calculate_risk_adjustment_noinv(volatility_score, risk_limits) ==
    LET volatility_percentage == Min(volatility_score, 10000)
        risk_multiplier == 5000 + (volatility_percentage * (15000 - 5000)) \div 10000
        final_multiplier == (risk_multiplier * ToNat(risk_limits.risk_tolerance_bps)) \div 10000
    IN  Min(final_multiplier, 15000)

\* calculate_risk_adjustment, the u32 risk_multiplier (5000..15000)
risk_multiplier_of(volatility_score) ==
    LET volatility_percentage == Min(volatility_score, 10000)
        inverse_volatility == SatSub(10000, volatility_percentage)
        min_multiplier == 5000
        max_multiplier == 15000
    IN  min_multiplier + (inverse_volatility * (max_multiplier - min_multiplier)) \div 10000

\* calculate_risk_adjustment: the u64 product risk_multiplier * risk_tolerance_bps
\* leaves 64 bits (the `*` is unchecked: the build decides what follows)
risk_adjustment_overflows(volatility_score, risk_limits) ==
    /\ ~IsSmall(risk_limits.risk_tolerance_bps)
    /\ ~FitsBytes(BytesMul(U64(risk_multiplier_of(volatility_score)),
                           risk_limits.risk_tolerance_bps), 8)

\* calculate_risk_adjustment: `final_multiplier as u32` drops set bits of the
\* u64 quotient (the cast never fails, in any build)
risk_adjustment_truncates(volatility_score, risk_limits) ==
    /\ ~IsSmall(risk_limits.risk_tolerance_bps)
    /\ ~FitsBytes(BytesDiv(LowBytes(BytesMul(U64(risk_multiplier_of(volatility_score)),
                                             risk_limits.risk_tolerance_bps), 8),
                           10000), 4)

\* calculate_risk_adjustment; where the product overflows this is the value
\* of the wrapping build.  A tolerance below 2^16 keeps every intermediate
\* below 2^31, and the plain formula is used.
calculate_risk_adjustment(volatility_score, risk_limits) ==
    LET max_multiplier == 15000
        risk_multiplier == risk_multiplier_of(volatility_score)
        tolerance == risk_limits.risk_tolerance_bps
        product == LowBytes(BytesMul(U64(risk_multiplier), tolerance), 8)
        final_multiplier == BytesDiv(product, 10000)
        as_u32 == LowBytes(final_multiplier, 4)
    IN  IF IsSmall(tolerance)
        THEN Min((risk_multiplier * ToNat(tolerance)) \div 10000, max_multiplier)
        ELSE IF IsSmall(as_u32) THEN Min(ToNat(as_u32), max_multiplier)
        ELSE max_multiplier

\* RiskLimits::default()
DefaultRiskLimits ==
    [ max_single_strategy_bps |-> U64(4000),
      min_single_strategy_bps |-> U64(100),
      platform_fee_bps        |-> U64(50),
      manager_fee_bps         |-> U64(150),
      risk_tolerance_bps      |-> U64(8000),
      platform_treasury       |-> 0,
      manager_treasury        |-> 0 ]

-----------------------------------------------------------------------------
(* Performance score: update_performance.rs, calculate_performance_score *)

\* A u64 balance as two limbs: hi * 10^9 + lo, 0 <= lo < 10^9.
Wide(b) == [hi |-> b \div 1000000000, lo |-> b % 1000000000]

\* ((balance as f64).ln() * 1000.0) as u64, tabulated (IEEE double) on the
\* balances of the logarithmic range [0.1 SOL, 100 SOL) that the model uses.
ln_milli(balance) ==
    CASE balance = [hi |-> 0,  lo |-> 100000000] -> 18420
      [] balance = [hi |-> 0,  lo |-> 150000000] -> 18826
      [] balance = [hi |-> 0,  lo |-> 500000000] -> 20030
      [] balance = [hi |-> 1,  lo |-> 0]         -> 20723
      [] balance = [hi |-> 2,  lo |-> 0]         -> 21416
      [] balance = [hi |-> 50, lo |-> 0]         -> 24635
      [] balance = [hi |-> 99, lo |-> 999999999] -> 25328

\* mutant: the 100 SOL cap is not applied to the weight of the balance
\* component (balance weighted 55% instead of 35%)
calculate_performance_score_w(yield_rate, balance, volatility) ==
    LET normalized_yield ==
            IF yield_rate > 50000 THEN 10000 ELSE (yield_rate * 10000) \div 50000
        normalized_balance ==
            IF balance.hi = 0 /\ balance.lo = 0 THEN 0
            ELSE IF balance.hi >= 100 THEN 10000
            ELSE IF balance.hi = 0 /\ balance.lo < 100000000 THEN balance.lo \div 100000
            ELSE (SatSub(ln_milli(balance), 18420) * 10000) \div (25328 - 18420)
        normalized_inverse_volatility == SatSub(10000, Min(volatility, 10000))
    IN  [ ok |-> TRUE,
          value |-> (normalized_yield * 4500) \div 10000
                    + (normalized_balance * 5500) \div 10000
                    + (normalized_inverse_volatility * 2000) \div 10000 ]

\* mutant: the yield component is weighted before it is normalised
calculate_performance_score_y(yield_rate, balance, volatility) ==
    LET normalized_balance ==
            IF balance.hi = 0 /\ balance.lo = 0 THEN 0
            ELSE IF balance.hi >= 100 THEN 10000
            ELSE IF balance.hi = 0 /\ balance.lo < 100000000 THEN balance.lo \div 100000
            ELSE (SatSub(ln_milli(balance), 18420) * 10000) \div (25328 - 18420)
        normalized_inverse_volatility == SatSub(10000, Min(volatility, 10000))
    IN  [ ok |-> TRUE,
          value |-> (Min(yield_rate, 50000) * 4500) \div 50000
                    + (normalized_balance * 3500) \div 10000
                    + (normalized_inverse_volatility * 2000) \div 10000 ]

\* Every checked_mul / checked_div / checked_add below has operands of at
\* most 10000 * 4500, far inside u64, so none returns None: the call is Ok.
\* The linear branch, balance * 1000 / 100_000_000 with balance < 10^8, is
\* written balance / 100_000 (the same floor).
calculate_performance_score(yield_rate, balance, volatility) ==
    LET normalized_yield ==
            IF yield_rate > 50000 THEN 10000 ELSE (yield_rate * 10000) \div 50000
        normalized_balance ==
            IF balance.hi = 0 /\ balance.lo = 0 THEN 0
            ELSE IF balance.hi >= 100 THEN 10000
            ELSE IF balance.hi = 0 /\ balance.lo < 100000000 THEN balance.lo \div 100000
            ELSE LET log_balance == ln_milli(balance)
                     log_min == 18420
                     log_max == 25328
                 IN  IF log_max > log_min
                     THEN (SatSub(log_balance, log_min) * 10000) \div (log_max - log_min)
                     ELSE 5000
        normalized_inverse_volatility == SatSub(10000, Min(volatility, 10000))
        yield_component == (normalized_yield * 4500) \div 10000
        balance_component == (normalized_balance * 3500) \div 10000
        volatility_component == (normalized_inverse_volatility * 2000) \div 10000
    IN  [ ok |-> TRUE,
          value |-> yield_component + balance_component + volatility_component ]

-----------------------------------------------------------------------------
(* Dynamic threshold: execute_ranking.rs *)

RECURSIVE total_volatility(_)
total_volatility(strats) ==
    IF strats = <<>> THEN 0
    ELSE (Head(strats).volatility_score \div 100) + total_volatility(Tail(strats))

calculate_average_volatility(strats) ==
    IF strats = <<>> THEN [ok |-> FALSE, value |-> 0]
    ELSE LET count == Len(strats)
             average_volatility == total_volatility(strats) \div count
         IN  [ ok |-> TRUE,
               value |-> IF average_volatility > 100 THEN 100 ELSE average_volatility ]

\* mutant: the adjustment is not scaled down by 100
calculate_dynamic_threshold_unscaled(strats) ==
    IF strats = <<>> THEN [ok |-> FALSE, value |-> 0]
    ELSE LET avg_volatility == calculate_average_volatility(strats).value
             dynamic_threshold == 15 + avg_volatility * 20
         IN  [ ok |-> TRUE,
               value |-> IF dynamic_threshold < 10 THEN 10
                         ELSE IF dynamic_threshold > 40 THEN 40
                         ELSE dynamic_threshold ]

calculate_dynamic_threshold(strats) ==
    IF strats = <<>> THEN [ok |-> FALSE, value |-> 0]
    ELSE LET avg == calculate_average_volatility(strats)
             avg_volatility == avg.value
             BASE_THRESHOLD == 15
             volatility_adjustment == (avg_volatility * 20) \div 100
             dynamic_threshold == BASE_THRESHOLD + volatility_adjustment
             bounded_threshold ==
                 IF dynamic_threshold < 10 THEN 10
                 ELSE IF dynamic_threshold > 40 THEN 40
                 ELSE dynamic_threshold
         IN  IF ~avg.ok THEN [ok |-> FALSE, value |-> 0]
             ELSE [ok |-> TRUE, value |-> bounded_threshold]

-----------------------------------------------------------------------------
(* Percentile ranking: execute_ranking.rs, calculate_percentile_rankings *)

\* Ord::cmp as -1 (Less), 0 (Equal), 1 (Greater); Ordering::then
Cmp(x, y) == IF x < y THEN -1 ELSE IF x > y THEN 1 ELSE 0

Then(o1, o2) == IF o1 # 0 THEN o1 ELSE o2

\* mutant: the comparator stops at the performance score
ranking_order_score_only(a, b) == Cmp(b.performance_score, a.performance_score)

\* the closure handed to sort_by
ranking_order(a, b) ==
    Then(Then(Cmp(b.performance_score, a.performance_score),
              Cmp(b.current_balance, a.current_balance)),
         Cmp(a.volatility_score, b.volatility_score))

\* Vec::sort_by is a stable sort: insertion from the left, each element placed
\* before the first one it is strictly Less than.
RECURSIVE InsertSorted(_, _)
InsertSorted(x, s) ==
    IF s = <<>> THEN <<x>>
    ELSE IF ranking_order(x, Head(s)) < 0 THEN <<x>> \o s
    ELSE <<Head(s)>> \o InsertSorted(x, Tail(s))

RECURSIVE sort_by(_)
sort_by(s) ==
    IF s = <<>> THEN <<>>
    ELSE InsertSorted(s[Len(s)], sort_by(SubSeq(s, 1, Len(s) - 1)))

\* mutant: the rank counts from the top of the list
percentile_rank_from_top(total_strategies, index) ==
    IF total_strategies = 1 THEN 50
    ELSE (index * 100) \div (total_strategies - 1)

\* mutant: a single strategy is ranked last
percentile_rank_single_last(total_strategies, index) ==
    IF total_strategies = 1 THEN 0
    ELSE ((total_strategies - 1 - index) * 100) \div (total_strategies - 1)

\* calculate_percentile_rankings, the rank of the strategy at `index` (from 0,
\* as enumerate() counts); the value is at most 100, `as u8` keeps it
percentile_rank(total_strategies, index) ==
    IF total_strategies = 1 THEN 50
    ELSE ((total_strategies - 1 - index) * 100) \div (total_strategies - 1)

\* mutant: the rank decides for every list size
is_underperformer_by_rank(total_strategies, index, rank, dynamic_threshold) ==
    rank < dynamic_threshold

\* calculate_percentile_rankings, the test that pushes an underperformer
is_underperformer(total_strategies, index, rank, dynamic_threshold) ==
    IF total_strategies <= 4 THEN rank < dynamic_threshold
    ELSE LET threshold_strategies == Max((total_strategies * dynamic_threshold) \div 100, 1)
         IN  index >= total_strategies - threshold_strategies

calculate_percentile_rankings(strats) ==
    IF strats = <<>> THEN [ok |-> FALSE, strategies |-> strats, underperformers |-> <<>>]
    ELSE
    LET dynamic_threshold == calculate_dynamic_threshold(strats).value
        sorted == sort_by(strats)
        total_strategies == Len(sorted)
        rank(index) == percentile_rank(total_strategies, index)
        is_under(index) ==
            is_underperformer(total_strategies, index, rank(index), dynamic_threshold)
        ranked == [i \in 1..total_strategies |->
                     [sorted[i] EXCEPT !.percentile_rank = rank(i - 1),
                                       !.rebalance_threshold = dynamic_threshold]]
        under_idx == {i \in 1..total_strategies : is_under(i - 1)}
        RECURSIVE collect(_)
        collect(i) == IF i > total_strategies THEN <<>>
                      ELSE (IF i \in under_idx THEN <<sorted[i].strategy_id>> ELSE <<>>)
                           \o collect(i + 1)
    IN  [ok |-> TRUE, strategies |-> ranked, underperformers |-> collect(1)]

-----------------------------------------------------------------------------
(* Allocation: redistribute_capital.rs, calculate_optimal_allocation *)

\* the match on strategy.protocol_type: TRUE when the candidate is skipped
below_protocol_minimum(protocol_type, allocation_amount) ==
    CASE protocol_type.kind = "StableLending" -> allocation_amount < 100000000
      [] protocol_type.kind = "YieldFarming"  -> allocation_amount < 500000000
      [] protocol_type.kind = "LiquidStaking" -> allocation_amount < 1000000000

\* (available_capital * bps) / 10000 in u64; where the product overflows this
\* is the value of the wrapping build.  available_capital and the quotient
\* are below 2^31.
capital_share(available_capital, bps) ==
    IF IsSmall(bps) THEN MulDiv(available_capital, ToNat(bps), 10000)
    ELSE ToNat(BytesDiv(LowBytes(BytesMul(U64(available_capital), bps), 8), 10000))

\* the u64 product available_capital * bps leaves 64 bits (the `*` is
\* unchecked: the build decides what follows)
capital_share_overflows(available_capital, bps) ==
    /\ ~IsSmall(bps)
    /\ ~FitsBytes(BytesMul(U64(available_capital), bps), 8)

\* One iteration of the candidate loop; index counts from 0.  `acc` carries
\* the loop's mutable state: allocations and remaining_capital, whether an
\* overflowing `*` has panicked (overflow_checks builds only), and the
\* performance_allocation computed for each candidate so far.
allocation_step(available_capital, total_performance_score, risk_limits, index, strategy, acc) ==
    IF acc.panicked THEN acc
    ELSE IF acc.remaining_capital = 0 THEN acc  \* break: nothing is pushed afterwards
    ELSE IF overflow_checks
            /\ \/ capital_share_overflows(available_capital, risk_limits.max_single_strategy_bps)
               \/ capital_share_overflows(available_capital, risk_limits.min_single_strategy_bps)
         THEN [acc EXCEPT !.panicked = TRUE]
    ELSE
    LET performance_allocation ==
            MulDiv(acc.remaining_capital, strategy.performance_score, total_performance_score)
        max_single_allocation ==
            capital_share(available_capital, risk_limits.max_single_strategy_bps)
        min_single_allocation ==
            capital_share(available_capital, risk_limits.min_single_strategy_bps)
        capped == Min(performance_allocation, max_single_allocation)
        risk_adjustment == calculate_risk_adjustment(strategy.volatility_score, risk_limits)
        adjusted == MulDiv(capped, risk_adjustment, 10000)
        allocation_amount == Min(adjusted, acc.remaining_capital)
        allocation_type == IF index < 3 THEN "TopPerformer" ELSE "RiskDiversification"
        seen == [acc EXCEPT !.performance_allocations =
                                Append(@, [ strategy_id |-> strategy.strategy_id,
                                            amount      |-> performance_allocation ])]
    IN  IF capped < min_single_allocation THEN seen                      \* continue
        ELSE IF below_protocol_minimum(strategy.protocol_type, capped) THEN seen  \* continue
        ELSE IF overflow_checks
                /\ risk_adjustment_overflows(strategy.volatility_score, risk_limits)
        THEN [seen EXCEPT !.panicked = TRUE]
        ELSE IF allocation_amount > 0
        THEN [ allocations |->
                 Append(acc.allocations,
                        [ strategy_id     |-> strategy.strategy_id,
                          amount          |-> allocation_amount,
                          allocation_type |-> allocation_type ]),
               remaining_capital |-> SatSub(acc.remaining_capital, allocation_amount),
               panicked |-> FALSE,
               performance_allocations |-> seen.performance_allocations ]
        ELSE seen

RECURSIVE allocation_loop(_, _, _, _, _, _)
allocation_loop(available_capital, total_performance_score, risk_limits, top_strategies, index, acc) ==
    IF index >= Len(top_strategies) THEN acc
    ELSE allocation_loop(available_capital, total_performance_score, risk_limits,
                         top_strategies, index + 1,
                         allocation_step(available_capital, total_performance_score,
                                         risk_limits, index, top_strategies[index + 1], acc))

\* mutant: the fee records are pushed but the fees stay in remaining_capital
fee_extraction_not_deducted(available_capital, risk_limits) ==
    LET platform_fee == capital_share(available_capital, risk_limits.platform_fee_bps)
        manager_fee == capital_share(available_capital, risk_limits.manager_fee_bps)
        a1 == IF platform_fee > 0
              THEN << [ strategy_id     |-> risk_limits.platform_treasury,
                        amount          |-> platform_fee,
                        allocation_type |-> "PlatformFee" ] >>
              ELSE <<>>
        r1 == available_capital
        a2 == IF manager_fee > 0
              THEN Append(a1, [ strategy_id     |-> risk_limits.manager_treasury,
                                amount          |-> manager_fee,
                                allocation_type |-> "ManagerIncentive" ])
              ELSE a1
        r2 == r1
    IN  [ allocations |-> a2, remaining_capital |-> r2,
          performance_allocations |-> <<>>,
          panicked |-> overflow_checks
                       /\ \/ capital_share_overflows(available_capital,
                                                     risk_limits.platform_fee_bps)
                          \/ capital_share_overflows(available_capital,
                                                     risk_limits.manager_fee_bps) ]

\* the platform and manager fee records, and what remains after them
fee_extraction(available_capital, risk_limits) ==
    LET platform_fee == capital_share(available_capital, risk_limits.platform_fee_bps)
        manager_fee == capital_share(available_capital, risk_limits.manager_fee_bps)
        a1 == IF platform_fee > 0
              THEN << [ strategy_id     |-> risk_limits.platform_treasury,
                        amount          |-> platform_fee,
                        allocation_type |-> "PlatformFee" ] >>
              ELSE <<>>
        r1 == IF platform_fee > 0 THEN SatSub(available_capital, platform_fee)
              ELSE available_capital
        a2 == IF manager_fee > 0
              THEN Append(a1, [ strategy_id     |-> risk_limits.manager_treasury,
                                amount          |-> manager_fee,
                                allocation_type |-> "ManagerIncentive" ])
              ELSE a1
        r2 == IF manager_fee > 0 THEN SatSub(r1, manager_fee) ELSE r1
    IN  [ allocations |-> a2, remaining_capital |-> r2,
          performance_allocations |-> <<>>,
          panicked |-> overflow_checks
                       /\ \/ capital_share_overflows(available_capital,
                                                     risk_limits.platform_fee_bps)
                          \/ capital_share_overflows(available_capital,
                                                     risk_limits.manager_fee_bps) ]

\* iter_mut().find(TopPerformer): index of the first TopPerformer record, 0 if none
first_top_performer(allocations) ==
    LET tops == {i \in 1..Len(allocations) : allocations[i].allocation_type = "TopPerformer"}
    IN  IF tops = {} THEN 0 ELSE CHOOSE i \in tops : \A j \in tops : i <= j

\* mutant: a leftover of exactly the dust floor is handed over too
redistribute_dust_at_floor(acc) ==
    LET top == first_top_performer(acc.allocations)
    IN  IF acc.remaining_capital >= 1000000 /\ acc.allocations # <<>> /\ top # 0
        THEN [acc.allocations EXCEPT ![top].amount = @ + acc.remaining_capital]
        ELSE acc.allocations

\* the dust redistribution after the loop
redistribute_dust(acc) ==
    LET top == first_top_performer(acc.allocations)
    IN  IF acc.remaining_capital > 1000000 /\ acc.allocations # <<>> /\ top # 0
        THEN [acc.allocations EXCEPT ![top].amount = @ + acc.remaining_capital]
        ELSE acc.allocations

RECURSIVE total_score(_)
total_score(top_strategies) ==
    IF top_strategies = <<>> THEN 0
    ELSE Head(top_strategies).performance_score + total_score(Tail(top_strategies))

\* calculate_optimal_allocation: the performance_allocation (line 133) of every
\* candidate the loop reached, in order
performance_allocations(available_capital, top_strategies, risk_limits) ==
    allocation_loop(available_capital, total_score(top_strategies), risk_limits,
                    top_strategies, 0,
                    fee_extraction(available_capital, risk_limits)).performance_allocations

calculate_optimal_allocation(available_capital, top_strategies, risk_limits) ==
    IF ~(available_capital > 0) THEN [ok |-> FALSE, err |-> "InsufficientBalance", allocations |-> <<>>]
    ELSE IF top_strategies = <<>> THEN [ok |-> FALSE, err |-> "InsufficientStrategies", allocations |-> <<>>]
    ELSE
    LET fees == fee_extraction(available_capital, risk_limits)
        total_performance_score == total_score(top_strategies)
        loop == allocation_loop(available_capital, total_performance_score,
                                risk_limits, top_strategies, 0, fees)
    IN  IF fees.panicked THEN [ok |-> FALSE, err |-> "panic", allocations |-> <<>>]
        ELSE IF ~(total_performance_score > 0)
        THEN [ok |-> FALSE, err |-> "InvalidPerformanceScore", allocations |-> <<>>]
        ELSE IF loop.panicked THEN [ok |-> FALSE, err |-> "panic", allocations |-> <<>>]
        ELSE [ok |-> TRUE, err |-> "", allocations |-> redistribute_dust(loop)]

-----------------------------------------------------------------------------
(* Account state and validation: state/mod.rs *)

\* Portfolio::validate_rebalance_threshold
validate_rebalance_threshold(threshold) == threshold >= 1 /\ threshold <= 50

\* Portfolio::validate_min_interval
validate_min_interval(interval) == interval >= 3600 /\ interval <= 86400

\* mutant: the interval is not looked at
can_rebalance_any_time(p, current_time) == ~p.emergency_pause

\* Portfolio::can_rebalance (the saturating_add never saturates here)
can_rebalance(p, current_time) ==
    /\ ~p.emergency_pause
    /\ current_time >= p.last_rebalance + p.min_rebalance_interval

\* Strategy::validate_yield_rate
validate_yield_rate(rate) == rate <= 50000

\* mutant: any volatility score is accepted
validate_volatility_score_unbounded(score) == score >= 0

\* Strategy::validate_volatility_score
validate_volatility_score(score) == score <= 10000

\* Strategy::validate_balance_update: new_balance < u64::MAX / 1000
\* = 18_446_744_073_709_551, on the two limbs of the balance
validate_balance_update(new_balance) ==
    \/ new_balance.hi < 18446744
    \/ new_balance.hi = 18446744 /\ new_balance.lo < 73709551

\* ProtocolType::validate; a Pubkey is a number, Pubkey::default() is 0
validate_protocol_type(pt) ==
    CASE pt.kind = "StableLending" ->
            /\ pt.pool_id # 0
            /\ pt.reserve_address # 0
            /\ pt.utilization <= 10000
      [] pt.kind = "YieldFarming" ->
            /\ pt.pair_id # 0
            /\ pt.token_a_mint # 0
            /\ pt.token_b_mint # 0
            /\ pt.token_a_mint # pt.token_b_mint
            /\ pt.reward_multiplier >= 1 /\ pt.reward_multiplier <= 10
            /\ pt.fee_tier <= 1000
      [] pt.kind = "LiquidStaking" ->
            /\ pt.validator_id # 0
            /\ pt.stake_pool # 0
            /\ pt.commission <= 1000
            /\ pt.unstake_delay <= 50

-----------------------------------------------------------------------------
(* Instruction handlers.  Each returns [ok, portfolio, strategies]; the      *)
(* runtime commits the accounts of a handler that returned Ok and discards   *)
(* every write of one that returned Err.                                     *)

Ok(p, s) == [ok |-> TRUE, portfolio |-> p, strategies |-> s]

Err(e) == [ok |-> FALSE, err |-> e]

\* initialize.rs, initialize_portfolio
initialize_portfolio(rebalance_threshold, min_rebalance_interval, current_time) ==
    IF ~validate_rebalance_threshold(rebalance_threshold) THEN Err("InvalidRebalanceThreshold")
    ELSE IF ~validate_min_interval(min_rebalance_interval) THEN Err("InvalidRebalanceInterval")
    ELSE Ok([ rebalance_threshold    |-> rebalance_threshold,
              total_strategies       |-> 0,
              total_capital_moved    |-> 0,
              last_rebalance         |-> current_time,
              min_rebalance_interval |-> min_rebalance_interval,
              emergency_pause        |-> FALSE ],
            <<>>)

\* register_strategy.rs, register_strategy; the `init` constraint of the
\* strategy account rejects an identifier that is registered already.  The
\* total_strategies < u32::MAX check and the two saturating_add stay far
\* from their limits under MaxStrategies and MaxCapitalMoved.
register_strategy(p, strats, strategy_id, protocol_type, initial_balance, current_time) ==
    IF strategy_id \in DOMAIN strats THEN Err("AccountAlreadyInUse")
    ELSE IF ~validate_protocol_type(protocol_type) THEN Err("InvalidProtocolType")
    ELSE IF ~validate_balance_update(Wide(initial_balance)) THEN Err("MathOverflow")
    ELSE IF p.emergency_pause THEN Err("EmergencyPauseActive")
    ELSE Ok([p EXCEPT !.total_strategies = @ + 1,
                      !.total_capital_moved = @ + initial_balance],
            strats @@ (strategy_id :>
                [ strategy_id       |-> strategy_id,
                  protocol_type     |-> protocol_type,
                  current_balance   |-> initial_balance,
                  yield_rate        |-> 0,
                  volatility_score  |-> 0,
                  performance_score |-> 0,
                  percentile_rank   |-> 0,
                  last_updated      |-> current_time,
                  status            |-> "Active",
                  total_deposits    |-> initial_balance,
                  total_withdrawals |-> 0,
                  creation_time     |-> current_time ]))

\* update_performance.rs, update_performance
update_performance(p, strats, strategy_id, yield_rate, volatility_score, current_balance, current_time) ==
    IF ~validate_yield_rate(yield_rate) THEN Err("InvalidAllocationPercentage")
    ELSE IF ~validate_volatility_score(volatility_score) THEN Err("InvalidAllocationPercentage")
    ELSE IF ~validate_balance_update(Wide(current_balance)) THEN Err("MathOverflow")
    ELSE IF strats[strategy_id].status # "Active" THEN Err("StrategyNotFound")
    ELSE LET score == calculate_performance_score(yield_rate, Wide(current_balance),
                                                  volatility_score)
         IN  IF ~score.ok THEN Err("BalanceOverflow")
             ELSE Ok(p, [strats EXCEPT ![strategy_id] =
                            [@ EXCEPT !.yield_rate = yield_rate,
                                      !.volatility_score = volatility_score,
                                      !.current_balance = current_balance,
                                      !.last_updated = current_time,
                                      !.performance_score = score.value]])

\* execute_ranking.rs, execute_ranking_cycle
execute_ranking_cycle(p, strats, current_time) ==
    IF p.emergency_pause THEN Err("EmergencyPauseActive")
    ELSE IF ~can_rebalance(p, current_time) THEN Err("RebalanceIntervalNotMet")
    ELSE IF ~(p.total_strategies >= 2) THEN Err("InsufficientStrategies")
    ELSE Ok([p EXCEPT !.last_rebalance = current_time], strats)

\* StrategyData::from_strategy
from_strategy(strategy, rebalance_threshold) ==
    [ strategy_id         |-> strategy.strategy_id,
      performance_score   |-> strategy.performance_score,
      current_balance     |-> strategy.current_balance,
      volatility_score    |-> strategy.volatility_score,
      percentile_rank     |-> strategy.percentile_rank,
      rebalance_threshold |-> rebalance_threshold ]

\* mutant: a rank equal to the threshold qualifies
should_rebalance_strategy_at_threshold(strategy, portfolio_threshold) ==
    IF strategy.status # "Active" THEN FALSE
    ELSE IF strategy.current_balance < 50000000 THEN FALSE
    ELSE strategy.percentile_rank <= portfolio_threshold

\* should_rebalance_strategy
should_rebalance_strategy(strategy, portfolio_threshold) ==
    IF strategy.status # "Active" THEN FALSE
    ELSE IF strategy.current_balance < 50000000 THEN FALSE
    ELSE strategy.percentile_rank < portfolio_threshold

\* mutant: every supplied account is ranked, whatever its status
RECURSIVE active_strategy_data_any_status(_, _)
active_strategy_data_any_status(strats, accounts) ==
    IF accounts = <<>> THEN <<>>
    ELSE <<from_strategy(strats[Head(accounts)], 25)>>
         \o active_strategy_data_any_status(strats, Tail(accounts))

\* the Active accounts among those supplied, in account order, as StrategyData
RECURSIVE active_strategy_data(_, _)
active_strategy_data(strats, accounts) ==
    IF accounts = <<>> THEN <<>>
    ELSE (IF strats[Head(accounts)].status = "Active"
          THEN <<from_strategy(strats[Head(accounts)], 25)>>
          ELSE <<>>) \o active_strategy_data(strats, Tail(accounts))

\* execute_ranking.rs, execute_batch_ranking.  `accounts` are the identifiers
\* of strategy_1, strategy_2 and the optional strategy_3, strategy_4.
execute_batch_ranking(p, strats, accounts, current_time) ==
    LET strategy_data == active_strategy_data(strats, accounts)
        ranking == calculate_percentile_rankings(strategy_data)
        ranked_ids == {ranking.strategies[i].strategy_id : i \in 1..Len(ranking.strategies)}
        data_of(id) == CHOOSE d \in {ranking.strategies[i] : i \in 1..Len(ranking.strategies)} :
                          d.strategy_id = id
        supplied == {accounts[i] : i \in 1..Len(accounts)}
    IN  IF strategy_data = <<>> THEN Err("InsufficientStrategies")
        ELSE IF ~(Len(strategy_data) >= 2) THEN Err("InsufficientStrategies")
        ELSE IF ~ranking.ok THEN Err("InsufficientStrategies")
        ELSE Ok(p, [id \in DOMAIN strats |->
                      IF id \in supplied /\ id \in ranked_ids
                      THEN [strats[id] EXCEPT !.percentile_rank = data_of(id).percentile_rank,
                                              !.last_updated = current_time]
                      ELSE strats[id]])

\* validate_allocations: the loop over the batch, `seen` being the HashSet
RECURSIVE validate_allocations_from(_, _, _)
validate_allocations_from(allocations, seen, total) ==
    IF allocations = <<>> THEN [ok |-> TRUE, value |-> total]
    ELSE LET allocation == Head(allocations)
         IN  IF allocation.strategy_id \in seen THEN Err("DuplicateStrategy")
             ELSE IF ~(allocation.amount > 0) THEN Err("InsufficientBalance")
             ELSE IF ~validate_balance_update(Wide(allocation.amount)) THEN Err("BalanceOverflow")
             ELSE validate_allocations_from(Tail(allocations),
                                            seen \cup {allocation.strategy_id},
                                            total + allocation.amount)

\* mutant: only strategy-purpose records are tested for duplicate identifiers
RECURSIVE validate_allocations_by_purpose_from(_, _, _)
validate_allocations_by_purpose_from(allocations, seen, total) ==
    IF allocations = <<>> THEN [ok |-> TRUE, value |-> total]
    ELSE LET allocation == Head(allocations)
             strategy_purpose ==
                 allocation.allocation_type \in {"TopPerformer", "RiskDiversification"}
         IN  IF strategy_purpose /\ allocation.strategy_id \in seen
             THEN Err("DuplicateStrategy")
             ELSE IF ~(allocation.amount > 0) THEN Err("InsufficientBalance")
             ELSE validate_allocations_by_purpose_from(Tail(allocations),
                      IF strategy_purpose THEN seen \cup {allocation.strategy_id} ELSE seen,
                      total + allocation.amount)

validate_allocations_by_purpose(allocations) ==
    validate_allocations_by_purpose_from(allocations, {}, 0)

validate_allocations(allocations) == validate_allocations_from(allocations, {}, 0)

\* update_strategy_allocation: only validates
update_strategy_allocation(strategy_id, allocation_amount, allocation_type) ==
    IF ~(allocation_amount > 0) THEN Err("InsufficientBalance")
    ELSE IF ~validate_balance_update(Wide(allocation_amount)) THEN Err("BalanceOverflow")
    ELSE [ok |-> TRUE]

\* process_allocation_batch: the loop, `res` being the AllocationResult
RECURSIVE process_allocations_from(_, _)
process_allocations_from(allocations, res) ==
    IF allocations = <<>> THEN [ok |-> TRUE, value |-> res]
    ELSE LET allocation == Head(allocations)
             upd == update_strategy_allocation(allocation.strategy_id, allocation.amount,
                                               allocation.allocation_type)
             tracked ==
                 CASE allocation.allocation_type \in {"TopPerformer", "RiskDiversification"} ->
                        [res EXCEPT !.strategies_updated = @ + 1,
                                    !.total_strategy_allocation = @ + allocation.amount]
                   [] allocation.allocation_type = "PlatformFee" ->
                        [res EXCEPT !.platform_fees = @ + allocation.amount]
                   [] allocation.allocation_type = "ManagerIncentive" ->
                        [res EXCEPT !.manager_fees = @ + allocation.amount]
         IN  IF ~upd.ok THEN upd
             ELSE process_allocations_from(Tail(allocations),
                      [tracked EXCEPT !.total_allocated = @ + allocation.amount])

\* process_allocation_batch: returns the AllocationResult and the portfolio
process_allocation_batch(allocations, p, current_time) ==
    LET r == process_allocations_from(allocations,
                 [ total_allocated |-> 0, strategies_updated |-> 0,
                   total_strategy_allocation |-> 0, platform_fees |-> 0,
                   manager_fees |-> 0 ])
    IN  IF ~r.ok THEN r
        ELSE [ ok |-> TRUE, value |-> r.value,
               portfolio |-> [p EXCEPT !.total_capital_moved = @ + r.value.total_allocated,
                                       !.last_rebalance = current_time] ]

\* redistribute_capital.rs, redistribute_capital
redistribute_capital(p, strats, allocations, current_time) ==
    IF p.emergency_pause THEN Err("EmergencyPauseActive")
    ELSE IF allocations = <<>> THEN Err("InsufficientStrategies")
    ELSE IF ~(Len(allocations) <= 20) THEN Err("TooManyStrategies")
    ELSE
    LET total_allocated == validate_allocations(allocations)
        allocation_result == process_allocation_batch(allocations, p, current_time)
    IN  IF ~total_allocated.ok THEN total_allocated
        ELSE IF ~allocation_result.ok THEN allocation_result
        ELSE IF allocation_result.value.total_allocated # total_allocated.value
             THEN Err("InvalidTotalAllocation")
        ELSE IF allocation_result.value.total_strategy_allocation
                  + allocation_result.value.platform_fees
                  + allocation_result.value.manager_fees
                # allocation_result.value.total_allocated
             THEN Err("InvalidTotalAllocation")
        ELSE Ok(allocation_result.portfolio, strats)

\* calculate_expected_improvement
calculate_expected_improvement(top_performers) ==
    IF top_performers = <<>> THEN 0
    ELSE LET average_top_score ==
                 SumSeq([i \in 1..Len(top_performers) |-> top_performers[i].performance_score])
                     \div Len(top_performers)
         IN  (average_top_score * 15) \div 100

\* execute_complete_rebalancing, step 3: what the underperformers give up
total_extractable(underperformers) ==
    SumSeq([i \in 1..Len(underperformers) |->
               SatSub(underperformers[i].current_balance, 10000000)])

\* execute_complete_rebalancing, step 1: filter(rank < rebalance_threshold)
underperformers_of(p, strats) ==
    LET IsUnder(s) == s.percentile_rank < p.rebalance_threshold
    IN  SelectSeq(strats, IsUnder)

\* execute_complete_rebalancing, step 2: filter(rank >= 75).take(5)
top_performers_of(strats) ==
    LET IsTop(s) == s.percentile_rank >= 75
        top_quartile == SelectSeq(strats, IsTop)
    IN  SubSeq(top_quartile, 1, Min(Len(top_quartile), 5))

\* redistribute_capital.rs, execute_complete_rebalancing
execute_complete_rebalancing(p, strats) ==
    LET underperformers == underperformers_of(p, strats)
        top_performers == top_performers_of(strats)
        extractable == total_extractable(underperformers)
        allocations == calculate_optimal_allocation(extractable, top_performers,
                                                    DefaultRiskLimits)
    IN  IF underperformers = <<>> THEN [ok |-> FALSE, err |-> "InsufficientStrategies"]
        ELSE IF top_performers = <<>> THEN [ok |-> FALSE, err |-> "InsufficientStrategies"]
        ELSE IF ~(extractable > 100000000) THEN [ok |-> FALSE, err |-> "InsufficientBalance"]
        ELSE IF ~allocations.ok THEN [ok |-> FALSE, err |-> allocations.err]
        ELSE [ ok |-> TRUE, err |-> "",
               plan |-> [ extraction_targets |->
                              [i \in 1..Len(underperformers) |-> underperformers[i].strategy_id],
                          total_to_extract |-> extractable,
                          redistribution_plan |-> allocations.allocations,
                          estimated_fees |-> MulDiv(extractable, 200, 10000),
                          expected_improvement |->
                              calculate_expected_improvement(top_performers) ] ]

-----------------------------------------------------------------------------
(* The state machine *)

MaxStrategies == 2          \* strategy identifiers are 1..MaxStrategies
MaxTime == 7200             \* the clock stops here
TickSeconds == 3600         \* one step of the clock
MaxCapitalMoved == 300000000    \* total_capital_moved is not driven beyond this

StrategyIds == 1..MaxStrategies

ThresholdInputs == {25}

IntervalInputs == {3600, 7200}

ProtocolInputs ==
    { [kind |-> "StableLending", pool_id |-> 7, utilization |-> 7500, reserve_address |-> 8],
      [kind |-> "StableLending", pool_id |-> 7, utilization |-> 10001, reserve_address |-> 8] }

InitialBalanceInputs == {100000000}

\* <<yield_rate, volatility_score, current_balance>>
MetricInputs ==
    { <<10000, 2000, 1000000000>>,
      <<500, 9000, 100000000>>,
      <<500, 10001, 100000000>>,
      <<50001, 9000, 100000000>> }

AllocationRecord(id, amount, type) ==
    [strategy_id |-> id, amount |-> amount, allocation_type |-> type]

AllocationInputs ==
    { <<>>,
      << AllocationRecord(0, 2000000, "PlatformFee"),
         AllocationRecord(1, 98000000, "TopPerformer") >>,
      << AllocationRecord(1, 50000000, "TopPerformer"),
         AllocationRecord(1, 50000000, "RiskDiversification") >>,
      << AllocationRecord(1, 0, "TopPerformer") >> }

\* the accounts handed to execute_batch_ranking: strategy_1 and strategy_2,
\* then the optional strategy_3 and strategy_4, all distinct and registered
BatchAccounts ==
    { a \in SeqsUpTo(DOMAIN strategies, 4) :
        /\ Len(a) >= 2
        /\ \A i, j \in 1..Len(a) : a[i] = a[j] => i = j }

Init ==
    /\ now = 0
    /\ \E t \in ThresholdInputs, i \in IntervalInputs :
          LET r == initialize_portfolio(t, i, 0)
          IN  /\ r.ok
              /\ portfolio = r.portfolio
              /\ strategies = r.strategies
    /\ last_op = "initialize_portfolio"
    /\ last_ok = TRUE
    /\ cycles = <<>>
    /\ overflow_checks \in BOOLEAN
    /\ fn = "none"
    /\ args = <<>>
    /\ result = <<>>
    /\ prev_args = <<>>
    /\ prev_result = <<>>

\* mutant: a failed call still leaves the time of the attempt in the portfolio
Commit_keeps_timestamp(op, r) ==
    /\ last_op' = op
    /\ last_ok' = r.ok
    /\ IF r.ok
       THEN portfolio' = r.portfolio /\ strategies' = r.strategies
       ELSE portfolio' = [portfolio EXCEPT !.last_rebalance = now] /\ UNCHANGED strategies

\* what the runtime does with a handler's result r
Commit(op, r) ==
    /\ last_op' = op
    /\ last_ok' = r.ok
    /\ IF r.ok
       THEN portfolio' = r.portfolio /\ strategies' = r.strategies
       ELSE UNCHANGED <<portfolio, strategies>>

\* the Clock sysvar advances
Tick ==
    /\ now + TickSeconds <= MaxTime
    /\ now' = now + TickSeconds
    /\ UNCHANGED <<portfolio, strategies, last_op, last_ok, cycles>>
    /\ UNCHANGED pure_vars

\* the emergency-pause flag of the portfolio snapshot is raised or cleared
SetEmergencyPause ==
    /\ portfolio' = [portfolio EXCEPT !.emergency_pause = ~@]
    /\ UNCHANGED <<strategies, now, last_op, last_ok, cycles>>
    /\ UNCHANGED pure_vars

RegisterStrategy ==
    /\ \E id \in StrategyIds, pt \in ProtocolInputs, b \in InitialBalanceInputs :
          /\ portfolio.total_capital_moved + b <= MaxCapitalMoved
          /\ Commit("register_strategy",
                    register_strategy(portfolio, strategies, id, pt, b, now))
    /\ UNCHANGED <<now, cycles>>
    /\ UNCHANGED pure_vars

UpdatePerformance ==
    /\ \E id \in DOMAIN strategies, m \in MetricInputs :
          Commit("update_performance",
                 update_performance(portfolio, strategies, id, m[1], m[2], m[3], now))
    /\ UNCHANGED <<now, cycles>>
    /\ UNCHANGED pure_vars

ExecuteRankingCycle ==
    LET r == execute_ranking_cycle(portfolio, strategies, now)
    IN  /\ Commit("execute_ranking_cycle", r)
        /\ cycles' = IF r.ok
                      THEN Append(cycles, [at |-> now,
                                           last_rebalance |-> portfolio.last_rebalance])
                      ELSE cycles
        /\ UNCHANGED now
        /\ UNCHANGED pure_vars

ExecuteBatchRanking ==
    /\ \E a \in BatchAccounts :
          Commit("execute_batch_ranking",
                 execute_batch_ranking(portfolio, strategies, a, now))
    /\ UNCHANGED <<now, cycles>>
    /\ UNCHANGED pure_vars

RedistributeCapital ==
    /\ \E a \in AllocationInputs :
          /\ portfolio.total_capital_moved + SumSeq([i \in 1..Len(a) |-> a[i].amount])
                <= MaxCapitalMoved
          /\ Commit("redistribute_capital",
                    redistribute_capital(portfolio, strategies, a, now))
    /\ UNCHANGED <<now, cycles>>
    /\ UNCHANGED pure_vars

Next ==
    \/ Tick
    \/ SetEmergencyPause
    \/ RegisterStrategy
    \/ UpdatePerformance
    \/ ExecuteRankingCycle
    \/ ExecuteBatchRanking
    \/ RedistributeCapital

Spec == Init /\ [][Next]_vars

-----------------------------------------------------------------------------
(* Bounds and input samples of the pure-function specifications *)

MaxThresholdList == 3       \* longest list given to calculate_dynamic_threshold
MaxRankList == 6            \* longest list given to calculate_percentile_rankings
MaxCandidates == 4          \* longest candidate list given to calculate_optimal_allocation

VolatilitySamples == {0, 1, 2500, 5000, 8750, 8751, 10000, 20000}

ToleranceSamples == {0, 5000, 8000, 10000, 12000, 30000}

YieldSamples == {0, 1, 12, 10000, 20000, 50000, 60000}

ScoreVolatilitySamples == {0, 5000, 10000, 12000}

BalanceSamples ==
    { [hi |-> 0,    lo |-> 0],
      [hi |-> 0,    lo |-> 99999999],
      [hi |-> 0,    lo |-> 100000000],
      [hi |-> 0,    lo |-> 150000000],
      [hi |-> 1,    lo |-> 0],
      [hi |-> 50,   lo |-> 0],
      [hi |-> 99,   lo |-> 999999999],
      [hi |-> 100,  lo |-> 0],
      [hi |-> 5000, lo |-> 0] }

ThresholdVolatilitySamples == {0, 2050, 4000, 10000, 30000}

StrategyDataOf(id, score, balance, volatility) ==
    [ strategy_id         |-> id,
      performance_score   |-> score,
      current_balance     |-> balance,
      volatility_score    |-> volatility,
      percentile_rank     |-> 0,
      rebalance_threshold |-> 25 ]

\* lists whose i-th element has strategy_id i and a volatility of V
ThresholdLists ==
    { [i \in 1..Len(v) |-> StrategyDataOf(i, 5000, 1000000000, v[i])] :
        v \in SeqsUpTo(ThresholdVolatilitySamples, MaxThresholdList) }

\* The pure-function specifications leave the state machine at rest.
MachineAtRest ==
    /\ portfolio = <<>>
    /\ strategies = <<>>
    /\ now = 0
    /\ last_op = "none"
    /\ last_ok = TRUE
    /\ cycles = <<>>

PureInit ==
    /\ fn = "none"
    /\ args = <<>>
    /\ result = <<>>
    /\ prev_args = <<>>
    /\ prev_result = <<>>
    /\ overflow_checks \in BOOLEAN
    /\ MachineAtRest

CallRiskAdjustment ==
    /\ prev_args = <<>>          \* at most two calls in a behaviour
    /\ \E v \in VolatilitySamples, t \in ToleranceSamples :
        LET limits == [DefaultRiskLimits EXCEPT !.risk_tolerance_bps = U64(t)]
        IN  /\ fn' = "calculate_risk_adjustment"
            /\ args' = [volatility_score |-> v, risk_limits |-> limits]
            /\ result' = calculate_risk_adjustment(v, limits)
            /\ prev_args' = args
            /\ prev_result' = result
            /\ UNCHANGED machine_vars

SpecRisk == PureInit /\ [][CallRiskAdjustment]_vars

CallPerformanceScore ==
    /\ prev_args = <<>>          \* at most two calls in a behaviour
    /\ \E y \in YieldSamples, b \in BalanceSamples, v \in ScoreVolatilitySamples :
        /\ fn' = "calculate_performance_score"
        /\ args' = [yield_rate |-> y, balance |-> b, volatility |-> v]
        /\ result' = calculate_performance_score(y, b, v)
        /\ prev_args' = args
        /\ prev_result' = result
        /\ UNCHANGED machine_vars

SpecScore == PureInit /\ [][CallPerformanceScore]_vars

CallDynamicThreshold ==
    /\ prev_args = <<>>          \* at most two calls in a behaviour
    /\ \E l \in ThresholdLists :
        /\ fn' = "calculate_dynamic_threshold"
        /\ args' = l
        /\ result' = [ threshold |-> calculate_dynamic_threshold(l),
                       average   |-> calculate_average_volatility(l) ]
        /\ prev_args' = args
        /\ prev_result' = result
        /\ UNCHANGED machine_vars

SpecThreshold == PureInit /\ [][CallDynamicThreshold]_vars

\* <<performance_score, current_balance, volatility_score>>: ties on the score,
\* on score and balance, and on all three
RankTemplates ==
    { <<8000, 1000000000, 1000>>,
      <<5000, 2000000000, 1000>>,
      <<5000, 1000000000, 1000>>,
      <<5000, 1000000000, 10000>>,
      <<5000, 2000000000, 10000>> }

\* lists whose i-th element has strategy_id i
RankLists ==
    { [i \in 1..Len(t) |-> StrategyDataOf(i, t[i][1], t[i][2], t[i][3])] :
        t \in SeqsUpTo(RankTemplates, MaxRankList) }

CallPercentileRankings ==
    /\ fn = "none"               \* one call in a behaviour
    /\ \E l \in RankLists :
        /\ fn' = "calculate_percentile_rankings"
        /\ args' = l
        /\ result' = calculate_percentile_rankings(l)
        /\ UNCHANGED <<prev_args, prev_result>>
        /\ UNCHANGED machine_vars

SpecRank == PureInit /\ [][CallPercentileRankings]_vars

\* The engine's calls side by side: the instruction handlers, and
\* calculate_percentile_rankings called directly on a short list (the empty
\* one included) before any instruction has run.
MaxAtomicList == 2

AtomicRankLists ==
    { [i \in 1..Len(t) |-> StrategyDataOf(i, t[i][1], t[i][2], t[i][3])] :
        t \in SeqsUpTo(RankTemplates, MaxAtomicList) }

CallPercentileRankingsDirectly ==
    /\ fn = "none"               \* one call in a behaviour
    /\ last_op = "initialize_portfolio" /\ now = 0 /\ ~portfolio.emergency_pause
    /\ \E l \in AtomicRankLists :
        /\ fn' = "calculate_percentile_rankings"
        /\ args' = l
        /\ result' = calculate_percentile_rankings(l)
        /\ UNCHANGED <<prev_args, prev_result>>
        /\ UNCHANGED machine_vars

\* the instructions run while no direct call has been made
AtomicNext ==
    \/ fn = "none" /\ Tick
    \/ fn = "none" /\ SetEmergencyPause
    \/ fn = "none" /\ RegisterStrategy
    \/ fn = "none" /\ UpdatePerformance
    \/ fn = "none" /\ ExecuteRankingCycle
    \/ fn = "none" /\ ExecuteBatchRanking
    \/ fn = "none" /\ RedistributeCapital
    \/ CallPercentileRankingsDirectly

SpecAtomic == Init /\ [][AtomicNext]_vars

StrategyPerformanceDataOf(id, score, volatility, kind) ==
    [ strategy_id       |-> id,
      performance_score |-> score,
      current_balance   |-> 1000000000,
      volatility_score  |-> volatility,
      protocol_type     |-> [kind |-> kind],
      percentile_rank   |-> 90 ]

\* <<performance_score, volatility_score, protocol kind>>
CandidateTemplates ==
    { <<8000, 2000,  "StableLending">>,
      <<8000, 10000, "StableLending">>,
      <<7000, 3000,  "YieldFarming">>,
      <<6000, 4000,  "LiquidStaking">>,
      <<100,  0,     "StableLending">>,
      <<0,    0,     "StableLending">> }

\* candidate lists; the i-th candidate has strategy_id i (the treasuries are
\* Pubkey::default(), 0)
CandidateLists ==
    { [i \in 1..Len(t) |-> StrategyPerformanceDataOf(i, t[i][1], t[i][2], t[i][3])] :
        t \in SeqsUpTo(CandidateTemplates, MaxCandidates) }

\* lamports; 1.4 SOL keeps 150% of any amount below 2^31
CapitalSamples == {0, 1, 500000000, 1000000000, 1400000000}

RiskLimitsSamples ==
    { DefaultRiskLimits,
      [DefaultRiskLimits EXCEPT !.max_single_strategy_bps = U64(10000),
                                !.min_single_strategy_bps = U64(0),
                                !.platform_fee_bps = U64(0),
                                !.manager_fee_bps = U64(0),
                                !.risk_tolerance_bps = U64(10000)],
      [DefaultRiskLimits EXCEPT !.max_single_strategy_bps = U64(6000),
                                !.risk_tolerance_bps = U64(15000)],
      [DefaultRiskLimits EXCEPT !.platform_fee_bps = U64(6000),
                                !.manager_fee_bps = U64(6000)],
      \* a volatility-0 candidate gets 99.9% of its share: the leftover of
      \* 1_000_000_000 is exactly the dust floor
      [DefaultRiskLimits EXCEPT !.max_single_strategy_bps = U64(10000),
                                !.min_single_strategy_bps = U64(0),
                                !.platform_fee_bps = U64(0),
                                !.manager_fee_bps = U64(0),
                                !.risk_tolerance_bps = U64(6660)] }

CallOptimalAllocation ==
    /\ fn = "none"               \* one call in a behaviour
    /\ \E c \in CapitalSamples, l \in CandidateLists, r \in RiskLimitsSamples :
        /\ fn' = "calculate_optimal_allocation"
        /\ args' = [available_capital |-> c, top_strategies |-> l, risk_limits |-> r]
        /\ result' = calculate_optimal_allocation(c, l, r)
        /\ UNCHANGED <<prev_args, prev_result>>
        /\ UNCHANGED machine_vars

SpecAlloc == PureInit /\ [][CallOptimalAllocation]_vars

\* risk limits whose u64 basis-point fields do not fit 16 bits
WideToleranceSamples ==
    { U64(8000),
      <<128, 62, 0, 0, 2, 0, 0, 0>>,                   \* 2^33 + 16000
      <<255, 255, 255, 255, 255, 255, 255, 255>> }     \* u64::MAX

WideFeeSamples ==
    { U64(50),
      <<10, 250, 130, 75, 4, 0, 0, 0>> }               \* 18_446_744_074

WideShareSamples == {U64(4000), <<10, 250, 130, 75, 4, 0, 0, 0>>}

WideRiskLimitsSamples ==
    { [DefaultRiskLimits EXCEPT !.risk_tolerance_bps = t,
                                !.platform_fee_bps = f,
                                !.max_single_strategy_bps = m] :
        t \in WideToleranceSamples, f \in WideFeeSamples, m \in WideShareSamples }

\* lamports; 18_446_744_074 * 10^9 = 2^64 + 290_448_384, so that the wrapped
\* quotients of these capitals stay below 2^31
WideCapitalSamples == {1000000000, 2000000000}

WideCandidateLists ==
    { [i \in 1..Len(t) |-> StrategyPerformanceDataOf(i, t[i][1], t[i][2], t[i][3])] :
        t \in SeqsUpTo({ <<8000, 10000, "StableLending">>,
                         <<7000, 0,     "StableLending">>,
                         <<0,    0,     "StableLending">> }, 2) }

CallOptimalAllocationWide ==
    /\ fn = "none"               \* one call in a behaviour
    /\ \E c \in WideCapitalSamples, l \in WideCandidateLists, r \in WideRiskLimitsSamples :
        /\ fn' = "calculate_optimal_allocation"
        /\ args' = [available_capital |-> c, top_strategies |-> l, risk_limits |-> r]
        /\ result' = calculate_optimal_allocation(c, l, r)
        /\ UNCHANGED <<prev_args, prev_result>>
        /\ UNCHANGED machine_vars

SpecOverflow == PureInit /\ [][CallOptimalAllocationWide]_vars

\* candidates with high scores and little volatility behind a candidate that
\* is skipped or risk-reduced: <<performance_score, volatility_score, kind>>
MaxOrderedCandidates == 3

OrderedTemplates ==
    { <<8000, 10000, "StableLending">>,
      <<8000, 0,     "StableLending">>,
      <<7000, 3000,  "YieldFarming">>,
      <<6000, 0,     "StableLending">> }

OrderedCandidateLists ==
    { [i \in 1..Len(t) |-> StrategyPerformanceDataOf(i, t[i][1], t[i][2], t[i][3])] :
        t \in SeqsUpTo(OrderedTemplates, MaxOrderedCandidates) }

OrderedCapitalSamples == {500000000, 1000000000}

OrderedRiskLimitsSamples ==
    { DefaultRiskLimits,
      [DefaultRiskLimits EXCEPT !.max_single_strategy_bps = U64(10000),
                                !.min_single_strategy_bps = U64(0),
                                !.platform_fee_bps = U64(0),
                                !.manager_fee_bps = U64(0),
                                !.risk_tolerance_bps = U64(10000)] }

CallOptimalAllocationOrdered ==
    /\ fn = "none"               \* one call in a behaviour
    /\ \E c \in OrderedCapitalSamples, l \in OrderedCandidateLists,
          r \in OrderedRiskLimitsSamples :
        /\ fn' = "calculate_optimal_allocation"
        /\ args' = [available_capital |-> c, top_strategies |-> l, risk_limits |-> r]
        /\ result' = calculate_optimal_allocation(c, l, r)
        /\ UNCHANGED <<prev_args, prev_result>>
        /\ UNCHANGED machine_vars

SpecOrdered == PureInit /\ [][CallOptimalAllocationOrdered]_vars

\* inputs of should_rebalance_strategy
StatusSamples == {"Active", "Paused", "Deprecated"}

EligibilityBalanceSamples == {0, 49999999, 50000000, 1000000000}

PercentileRankSamples == {0, 9, 10, 24, 25, 26, 40, 100}

PortfolioThresholdSamples == {0, 10, 25, 40}

CallShouldRebalance ==
    /\ fn = "none"               \* one call in a behaviour
    /\ \E st \in StatusSamples, b \in EligibilityBalanceSamples,
          r \in PercentileRankSamples, t \in PortfolioThresholdSamples :
        LET strategy == [ strategy_id |-> 1, status |-> st,
                          current_balance |-> b, percentile_rank |-> r ]
        IN  /\ fn' = "should_rebalance_strategy"
            /\ args' = [strategy |-> strategy, portfolio_threshold |-> t]
            /\ result' = [ value |-> should_rebalance_strategy(strategy, t),
                           strategy |-> strategy ]
            /\ UNCHANGED <<prev_args, prev_result>>
            /\ UNCHANGED machine_vars

SpecEligible == PureInit /\ [][CallShouldRebalance]_vars

\* strategy accounts given to execute_batch_ranking: <<status, performance_score>>;
\* every account holds the rank 37 of an earlier ranking, written at time 0
MaxBatchAccounts == 3

BatchAccountTemplates ==
    { <<st, sc>> : st \in StatusSamples, sc \in {5000, 8000} }

BatchStrategySamples ==
    { [id \in 1..Len(t) |->
          [ strategy_id       |-> id,
            status            |-> t[id][1],
            performance_score |-> t[id][2],
            current_balance   |-> 1000000000,
            volatility_score  |-> 2000,
            percentile_rank   |-> 37,
            last_updated      |-> 0 ]] :
        t \in {x \in SeqsUpTo(BatchAccountTemplates, MaxBatchAccounts) : Len(x) >= 2} }

CallExecuteBatchRanking ==
    /\ fn = "none"               \* one call in a behaviour
    /\ \E strats \in BatchStrategySamples :
        LET p == [rebalance_threshold |-> 25]
            accounts == [i \in 1..Len(strats) |-> i]
        IN  /\ fn' = "execute_batch_ranking"
            /\ args' = [strategies |-> strats, accounts |-> accounts, current_time |-> 100]
            /\ result' = execute_batch_ranking(p, strats, accounts, 100)
            /\ UNCHANGED <<prev_args, prev_result>>
            /\ UNCHANGED machine_vars

SpecBatch == PureInit /\ [][CallExecuteBatchRanking]_vars

MaxBatch == 3               \* longest batch given to validate_allocations

BatchIdSamples == {0, 1, 2}

BatchAmountSamples == {0, 1, 98000000}

BatchTypeSamples == {"TopPerformer", "PlatformFee"}

BatchSamples ==
    SeqsUpTo({AllocationRecord(id, amount, type) :
                 id \in BatchIdSamples, amount \in BatchAmountSamples,
                 type \in BatchTypeSamples}, MaxBatch)

CallValidateAllocations ==
    /\ fn = "none"               \* one call in a behaviour
    /\ \E a \in BatchSamples :
        /\ fn' = "validate_allocations"
        /\ args' = a
        /\ result' = validate_allocations(a)
        /\ UNCHANGED <<prev_args, prev_result>>
        /\ UNCHANGED machine_vars

SpecValidate == PureInit /\ [][CallValidateAllocations]_vars

MaxPlanList == 3            \* longest list given to execute_complete_rebalancing

\* <<current_balance, percentile_rank, performance_score>>
PlanTemplates ==
    { <<5000000,   0,   1000>>,
      <<60000000,  10,  2000>>,
      <<110000000, 0,   1000>>,
      <<110000001, 20,  3000>>,
      <<390000000, 30,  4000>>,
      <<390000000, 75,  8000>>,
      <<390000000, 100, 0>> }

PlanLists ==
    { [i \in 1..Len(t) |->
          [StrategyPerformanceDataOf(i, t[i][3], 2000, "StableLending")
              EXCEPT !.current_balance = t[i][1], !.percentile_rank = t[i][2]]] :
        t \in SeqsUpTo(PlanTemplates, MaxPlanList) }

PlanThresholdSamples == {25, 50}

CallCompleteRebalancing ==
    /\ fn = "none"               \* one call in a behaviour
    /\ \E l \in PlanLists, t \in PlanThresholdSamples :
        LET p == [rebalance_threshold |-> t]
        IN  /\ fn' = "execute_complete_rebalancing"
            /\ args' = [portfolio |-> p, strategies |-> l]
            /\ result' = execute_complete_rebalancing(p, l)
            /\ UNCHANGED <<prev_args, prev_result>>
            /\ UNCHANGED machine_vars

SpecPlan == PureInit /\ [][CallCompleteRebalancing]_vars

\* lists long enough for more than five strategies of the top quartile:
\* <<current_balance, percentile_rank, performance_score>>
MaxQualifyingList == 7

QualifyingTemplates ==
    { <<210000000, 0,   1000>>,
      <<110000000, 75,  8000>>,
      <<110000000, 100, 9000>> }

QualifyingLists ==
    { [i \in 1..Len(t) |->
          [StrategyPerformanceDataOf(i, t[i][3], 2000, "StableLending")
              EXCEPT !.current_balance = t[i][1], !.percentile_rank = t[i][2]]] :
        t \in SeqsUpTo(QualifyingTemplates, MaxQualifyingList) }

CallCompleteRebalancingOnMany ==
    /\ fn = "none"               \* one call in a behaviour
    /\ \E l \in QualifyingLists :
        LET p == [rebalance_threshold |-> 25]
        IN  /\ fn' = "execute_complete_rebalancing"
            /\ args' = [portfolio |-> p, strategies |-> l]
            /\ result' = execute_complete_rebalancing(p, l)
            /\ UNCHANGED <<prev_args, prev_result>>
            /\ UNCHANGED machine_vars

SpecTopFive == PureInit /\ [][CallCompleteRebalancingOnMany]_vars

-----------------------------------------------------------------------------
(* Claims about calculate_risk_adjustment, under SpecRisk *)

\* C5 (as claimed): for every volatility score in 0..10000 and every risk
\* tolerance, the multiplier returned lies in [5000, 15000].
C5_MultiplierInBand ==
    (fn = "calculate_risk_adjustment" /\ args.volatility_score <= 10000)
        => (result >= 5000 /\ result <= 15000)

-----------------------------------------------------------------------------
(* Claims about calculate_performance_score, under SpecScore *)

\* C7: with yield_rate <= 50000 and volatility <= 10000, for any balance, the
\* call succeeds and the score lies in [0, 10000].
C7_ScoreInRange ==
    (/\ fn = "calculate_performance_score"
     /\ args.yield_rate <= 50000
     /\ args.volatility <= 10000)
        => (result.ok /\ result.value >= 0 /\ result.value <= 10000)

\* a balance inside the logarithmic range scored at its upper end, with the
\* best yield and volatility: the score reaches the top of the range
C7_Witness ==
    /\ fn = "calculate_performance_score"
    /\ args.yield_rate = 50000
    /\ args.volatility = 0
    /\ args.balance = [hi |-> 99, lo |-> 999999999]
    /\ result.ok
    /\ result.value = 10000

\* the closed form of C8, written from the claim
C8_ClosedForm(y, nb, v) ==
    LET ny == (Min(y, 50000) * 10000) \div 50000
    IN  (ny * 4500) \div 10000 + (nb * 3500) \div 10000
        + ((10000 - Min(v, 10000)) * 2000) \div 10000

\* C8: for balance = 0 or balance >= 100_000_000_000 the score is
\* floor(ny*4500/10000) + floor(nb*3500/10000) + floor((10000-min(v,10000))*2000/10000)
\* with nb = 0, respectively 10000; score(50000, cap, 0) = 10000 and
\* score(10000, 0, 5000) = 1900.
C8_ScoreAtBalanceEnds ==
    fn = "calculate_performance_score" =>
        /\ (args.balance.hi = 0 /\ args.balance.lo = 0)
              => result.value = C8_ClosedForm(args.yield_rate, 0, args.volatility)
        /\ args.balance.hi >= 100
              => result.value = C8_ClosedForm(args.yield_rate, 10000, args.volatility)
        /\ (args.yield_rate = 50000 /\ args.balance = [hi |-> 100, lo |-> 0]
              /\ args.volatility = 0) => result.value = 10000
        /\ (args.yield_rate = 10000 /\ args.balance = [hi |-> 0, lo |-> 0]
              /\ args.volatility = 5000) => result.value = 1900

\* the zero-balance example of the claim has been computed
C8_Witness ==
    /\ fn = "calculate_performance_score"
    /\ args = [yield_rate |-> 10000, balance |-> [hi |-> 0, lo |-> 0], volatility |-> 5000]
    /\ result.value = 1900

-----------------------------------------------------------------------------
(* Claims about calculate_dynamic_threshold, under SpecThreshold *)

RECURSIVE C9_SumPct(_)
C9_SumPct(l) == IF l = <<>> THEN 0 ELSE Head(l).volatility_score \div 100 + C9_SumPct(Tail(l))

C9_Avg(l) == Min(100, C9_SumPct(l) \div Len(l))

C9_Clamp(x) == Max(10, Min(40, x))

\* C9: on a non-empty list the threshold is clamp(15 + floor(avg*20/100), 10, 40)
\* with avg = min(100, floor(sum floor(vol_i/100) / n)); it lies in [10, 40],
\* does not decrease when avg grows, and is 15, 23, 35 at avg 0, 40, 100.
C9_ThresholdFormula ==
    (fn = "calculate_dynamic_threshold" /\ args # <<>>) =>
        /\ result.threshold.ok
        /\ result.average.value = C9_Avg(args)
        /\ result.threshold.value = C9_Clamp(15 + (C9_Avg(args) * 20) \div 100)
        /\ result.threshold.value >= 10 /\ result.threshold.value <= 40
        /\ result.average.value = 0 => result.threshold.value = 15
        /\ result.average.value = 40 => result.threshold.value = 23
        /\ result.average.value = 100 => result.threshold.value = 35
        /\ (prev_args # <<>> /\ prev_result.average.value <= result.average.value)
              => prev_result.threshold.value <= result.threshold.value

\* a three-strategy list averaging 40% after one averaging less: 23 after a
\* smaller threshold
C9_Witness ==
    /\ fn = "calculate_dynamic_threshold"
    /\ Len(args) = 3
    /\ result.average.value = 40
    /\ result.threshold.value = 23
    /\ prev_args # <<>>
    /\ prev_result.average.value < 40
    /\ prev_result.threshold.value < 23

-----------------------------------------------------------------------------
(* Claims about calculate_percentile_rankings, under SpecRank *)

\* the output holds every input strategy once, with its score, balance and
\* volatility untouched
C10_IsPermutation(in, out) ==
    /\ Len(out) = Len(in)
    /\ \A i \in 1..Len(in) :
          \E j \in 1..Len(out) :
             /\ out[j].strategy_id = in[i].strategy_id
             /\ out[j].performance_score = in[i].performance_score
             /\ out[j].current_balance = in[i].current_balance
             /\ out[j].volatility_score = in[i].volatility_score
    /\ \A j, k \in 1..Len(out) : out[j].strategy_id = out[k].strategy_id => j = k

C10_InOrder(a, b) ==
    \/ a.performance_score > b.performance_score
    \/ /\ a.performance_score = b.performance_score
       /\ a.current_balance > b.current_balance
    \/ /\ a.performance_score = b.performance_score
       /\ a.current_balance = b.current_balance
       /\ a.volatility_score <= b.volatility_score

\* C10: after calculate_percentile_rankings the list is a permutation of the
\* input in which every adjacent pair is ordered by descending score, then
\* descending balance, then ascending volatility.
C10_SortedPermutation ==
    (fn = "calculate_percentile_rankings" /\ result.ok) =>
        /\ C10_IsPermutation(args, result.strategies)
        /\ \A i \in 1..(Len(result.strategies) - 1) :
              C10_InOrder(result.strategies[i], result.strategies[i + 1])

\* a ranked list that was reordered, with one tie on the score broken by the
\* balance and one tie on score and balance broken by the volatility
C10_Witness ==
    /\ fn = "calculate_percentile_rankings"
    /\ result.ok
    /\ Len(result.strategies) >= 3
    /\ \E i \in 1..(Len(result.strategies) - 1) :
          result.strategies[i].strategy_id > result.strategies[i + 1].strategy_id
    /\ \E i \in 1..(Len(result.strategies) - 1) :
          /\ result.strategies[i].performance_score = result.strategies[i + 1].performance_score
          /\ result.strategies[i].current_balance > result.strategies[i + 1].current_balance
    /\ \E i \in 1..(Len(result.strategies) - 1) :
          /\ result.strategies[i].performance_score = result.strategies[i + 1].performance_score
          /\ result.strategies[i].current_balance = result.strategies[i + 1].current_balance
          /\ result.strategies[i].volatility_score < result.strategies[i + 1].volatility_score


\* C11: on n >= 2 strategies the strategy at sorted index i (from 0) has
\* percentile_rank = floor((n-1-i)*100/(n-1)): 100 first, 0 last, never
\* increasing along the list, never above 100.
C11_RankFormula ==
    (fn = "calculate_percentile_rankings" /\ result.ok /\ Len(args) >= 2) =>
        LET n == Len(result.strategies)
            r(i) == result.strategies[i].percentile_rank
        IN  /\ n = Len(args)
            /\ \A i \in 1..n : r(i) = ((n - i) * 100) \div (n - 1)
            /\ r(1) = 100
            /\ r(n) = 0
            /\ \A i \in 1..(n - 1) : r(i) >= r(i + 1)
            /\ \A i \in 1..n : r(i) <= 100

\* C11 witness: four strategies ranked 100, 66, 33, 0
C11_Witness ==
    /\ fn = "calculate_percentile_rankings"
    /\ result.ok
    /\ Len(result.strategies) = 4
    /\ [i \in 1..4 |-> result.strategies[i].percentile_rank] = <<100, 66, 33, 0>>

\* C12: a list of exactly one strategy gets percentile rank 50 and no
\* underperformer, whatever the strategy's volatility score.
C12_SingleStrategyIsMedian ==
    (fn = "calculate_percentile_rankings" /\ Len(args) = 1) =>
        /\ result.ok
        /\ Len(result.strategies) = 1
        /\ result.strategies[1].percentile_rank = 50
        /\ result.underperformers = <<>>

\* C12 witness: a single strategy of volatility 10000 (threshold 35) was ranked
C12_Witness ==
    /\ fn = "calculate_percentile_rankings"
    /\ Len(args) = 1
    /\ args[1].volatility_score = 10000
    /\ result.ok
    /\ result.strategies[1].rebalance_threshold = 35

\* the sub-sequence of seq at the positions in idx, in order
RECURSIVE C13_Pick(_, _, _)
C13_Pick(seq, idx, i) ==
    IF i > Len(seq) THEN <<>>
    ELSE (IF i \in idx THEN <<seq[i].strategy_id>> ELSE <<>>) \o C13_Pick(seq, idx, i + 1)

\* C13: for n <= 4 the underperformers are exactly the strategies ranked
\* strictly below the dynamic threshold; for n > 4 they are exactly the last
\* max(1, floor(n*threshold/100)) strategies of the sorted list.
C13_DualPolicy ==
    (fn = "calculate_percentile_rankings" /\ result.ok) =>
        LET out == result.strategies
            n == Len(out)
            threshold == calculate_dynamic_threshold(args).value
            k == Max((n * threshold) \div 100, 1)
            expected == IF n <= 4
                        THEN {i \in 1..n : out[i].percentile_rank < threshold}
                        ELSE {i \in 1..n : i > n - k}
        IN  result.underperformers = C13_Pick(out, expected, 1)

\* C13 witness: more than four strategies, one of them ranked below the
\* threshold and still not an underperformer
C13_Witness ==
    /\ fn = "calculate_percentile_rankings"
    /\ result.ok
    /\ Len(result.strategies) > 4
    /\ result.underperformers # <<>>
    /\ \E i \in 1..Len(result.strategies) :
          /\ result.strategies[i].percentile_rank < result.strategies[i].rebalance_threshold
          /\ \A j \in 1..Len(result.underperformers) :
                result.strategies[i].strategy_id # result.underperformers[j]

-----------------------------------------------------------------------------
(* Claims about calculate_optimal_allocation, under SpecAlloc *)

RECURSIVE SumAmounts(_)
SumAmounts(allocations) ==
    IF allocations = <<>> THEN 0
    ELSE Head(allocations).amount + SumAmounts(Tail(allocations))

IsStrategyRecord(a) == a.allocation_type \in {"TopPerformer", "RiskDiversification"}

\* C1 (as claimed): every successful call returns records whose amounts sum
\* to exactly the submitted available capital.
C1_SumEqualsCapital ==
    (fn = "calculate_optimal_allocation" /\ result.ok /\ args.available_capital > 0)
        => SumAmounts(result.allocations) = args.available_capital

\* the absolute floor of the candidate that received record a
C2_FloorOf(a) ==
    LET kind == args.top_strategies[a.strategy_id].protocol_type.kind
    IN  CASE kind = "StableLending" -> 100000000
          [] kind = "YieldFarming"  -> 500000000
          [] kind = "LiquidStaking" -> 1000000000

\* C2 (as claimed): no strategy record carries a final amount below the
\* absolute floor of its protocol.
C2_AmountsAtLeastFloor ==
    (fn = "calculate_optimal_allocation" /\ result.ok) =>
        \A i \in 1..Len(result.allocations) :
            IsStrategyRecord(result.allocations[i])
                => result.allocations[i].amount >= C2_FloorOf(result.allocations[i])

-----------------------------------------------------------------------------
(* Claims about the instruction handlers, under Spec *)

\* the fields C3 says a paused portfolio keeps
C3_RanksAndTotalsKept ==
    /\ portfolio'.last_rebalance = portfolio.last_rebalance
    /\ portfolio'.total_capital_moved = portfolio.total_capital_moved
    /\ DOMAIN strategies' = DOMAIN strategies
    /\ \A id \in DOMAIN strategies :
          /\ strategies'[id].percentile_rank = strategies[id].percentile_rank
          /\ strategies'[id].last_updated = strategies[id].last_updated

\* C3 (as claimed): while emergency_pause is true, execute_ranking_cycle,
\* execute_batch_ranking and redistribute_capital all fail, and none of them
\* changes a percentile rank, last_updated, last_rebalance or
\* total_capital_moved.
C3_PausedBlocksRankingAndAllocation ==
    [][ (portfolio.emergency_pause
            /\ (ExecuteRankingCycle \/ ExecuteBatchRanking \/ RedistributeCapital))
        => (~last_ok' /\ C3_RanksAndTotalsKept) ]_vars

\* C4: every successful execute_ranking_cycle ran at a time not before the
\* last_rebalance it found plus min_rebalance_interval, and any two
\* successful cycles are at least min_rebalance_interval apart.
C4_CyclesRespectInterval ==
    /\ \A i \in 1..Len(cycles) :
          cycles[i].at >= cycles[i].last_rebalance + portfolio.min_rebalance_interval
    /\ \A i, j \in 1..Len(cycles) :
          i < j => cycles[j].at - cycles[i].at >= portfolio.min_rebalance_interval

\* C4 witness: a second execute_ranking_cycle has just succeeded
C4_Witness ==
    /\ last_op = "execute_ranking_cycle"
    /\ last_ok
    /\ Len(cycles) >= 2

-----------------------------------------------------------------------------
(* Claims about should_rebalance_strategy, under SpecEligible *)

\* C14: should_rebalance_strategy is true exactly when the strategy is
\* Active, its balance is at least 50_000_000 and its percentile rank is
\* strictly below the threshold; the strategy it was given is unchanged.
C14_EligibleIff ==
    (fn = "should_rebalance_strategy") =>
        /\ result.value <=> /\ args.strategy.status = "Active"
                            /\ args.strategy.current_balance >= 50000000
                            /\ args.strategy.percentile_rank < args.portfolio_threshold
        /\ result.strategy = args.strategy

\* C14 witness: an Active strategy with exactly the dust floor, ranked at the
\* threshold, was found not eligible
C14_Witness ==
    /\ fn = "should_rebalance_strategy"
    /\ args.strategy.status = "Active"
    /\ args.strategy.current_balance = 50000000
    /\ args.strategy.percentile_rank = args.portfolio_threshold
    /\ ~result.value

-----------------------------------------------------------------------------
(* Claims about validate_allocations, under SpecValidate *)

\* C15: validate_allocations is never Ok for a batch that names an identifier
\* twice (whatever the records' purposes) or holds an amount of 0; when it is
\* Ok its value is the sum of the batch's amounts.
C15_RejectsDuplicatesAndZero ==
    (fn = "validate_allocations" /\ result.ok) =>
        /\ \A i, j \in 1..Len(args) : args[i].strategy_id = args[j].strategy_id => i = j
        /\ \A i \in 1..Len(args) : args[i].amount > 0
        /\ result.value = SumAmounts(args)

\* C15 witness: a batch naming one identifier in a fee record and in a
\* strategy record, both amounts positive, was rejected
C15_Witness ==
    /\ fn = "validate_allocations"
    /\ Len(args) = 2
    /\ args[1].strategy_id = args[2].strategy_id
    /\ args[1].allocation_type = "PlatformFee"
    /\ args[2].allocation_type = "TopPerformer"
    /\ args[1].amount > 0
    /\ args[2].amount > 0
    /\ ~result.ok
    /\ result.err = "DuplicateStrategy"

-----------------------------------------------------------------------------
(* Claims about execute_complete_rebalancing, under SpecPlan *)

\* the extractable capital of the call, as the claim computes it
C16_Extractable ==
    SumSeq([i \in 1..Len(args.strategies) |->
               IF args.strategies[i].percentile_rank < args.portfolio.rebalance_threshold
               THEN Max(args.strategies[i].current_balance - 10000000, 0)
               ELSE 0])

\* the call got past the tests for underperformers and top performers
C16_HasBothGroups ==
    /\ \E i \in 1..Len(args.strategies) :
          args.strategies[i].percentile_rank < args.portfolio.rebalance_threshold
    /\ \E i \in 1..Len(args.strategies) : args.strategies[i].percentile_rank >= 75

\* C16 (as claimed): the call fails with InsufficientBalance exactly when the
\* extractable capital is below 100_000_000; a total at or above that floor
\* does not cause the failure.
C16_FailsBelowViabilityFloor ==
    (fn = "execute_complete_rebalancing" /\ C16_HasBothGroups) =>
        ((~result.ok /\ result.err = "InsufficientBalance") <=> C16_Extractable < 100000000)

\* C17 (as claimed): all arithmetic of calculate_optimal_allocation is
\* checked.  A call that returns Ok computed both fee products, and neither
\* left 64 bits; when it returns records it computed the max/min share
\* products, and neither left 64 bits; and for every strategy record the risk
\* multiplier of that candidate was computed from a product that fits 64 bits
\* and a quotient that fits the u32 it is narrowed to.
C17_Candidate(id) == args.top_strategies[id]

C17_ArithmeticIsChecked ==
    (fn = "calculate_optimal_allocation" /\ result.ok) =>
        LET c == args.available_capital
            r == args.risk_limits
        IN  /\ ~capital_share_overflows(c, r.platform_fee_bps)
            /\ ~capital_share_overflows(c, r.manager_fee_bps)
            /\ result.allocations # <<>> =>
                  /\ ~capital_share_overflows(c, r.max_single_strategy_bps)
                  /\ ~capital_share_overflows(c, r.min_single_strategy_bps)
            /\ \A i \in 1..Len(result.allocations) :
                  LET a == result.allocations[i]
                  IN  IsStrategyRecord(a) =>
                        /\ ~risk_adjustment_overflows(
                               C17_Candidate(a.strategy_id).volatility_score, r)
                        /\ ~risk_adjustment_truncates(
                               C17_Candidate(a.strategy_id).volatility_score, r)

\* a calculate_percentile_rankings that returned an error left its list alone
C18_FailedRankingKeepsList ==
    (fn = "calculate_percentile_rankings" /\ ~result.ok) => result.strategies = args

\* the portfolio fields the instruction handlers write (emergency_pause has no
\* writer among them)
C18_PortfolioKept ==
    \A f \in DOMAIN portfolio \ {"emergency_pause"} : portfolio'[f] = portfolio[f]

C19_StoredMetricsInRange ==
    \A id \in DOMAIN strategies :
        /\ strategies[id].volatility_score <= 10000
        /\ strategies[id].yield_rate <= 50000
        /\ strategies[id].percentile_rank <= 100

\* C19 witness: an update_performance has just been rejected while a strategy
\* holds metrics written by an earlier update and the top rank written by
\* execute_batch_ranking
C19_Witness ==
    /\ last_op = "update_performance" /\ ~last_ok
    /\ \E id \in DOMAIN strategies :
          /\ strategies[id].percentile_rank = 100
          /\ strategies[id].volatility_score > 0
          /\ strategies[id].yield_rate > 0

\* the capital left after the platform and manager fees
C20_AfterFees == fee_extraction(args.available_capital, args.risk_limits).remaining_capital

\* C20 (as claimed): a call whose candidates' scores sum to zero fails, and in
\* a successful call the base share computed for every candidate is
\* floor(R * score / sum of scores) for the one R left after the fees,
\* wherever the candidate stands in the list.
C20_SharesOfTheSameRemainder ==
    fn = "calculate_optimal_allocation" =>
        /\ total_score(args.top_strategies) = 0 => ~result.ok
        /\ result.ok =>
              LET shares == performance_allocations(args.available_capital,
                                                    args.top_strategies, args.risk_limits)
              IN  \A i \in 1..Len(shares) :
                     shares[i].amount =
                        MulDiv(C20_AfterFees,
                               args.top_strategies[shares[i].strategy_id].performance_score,
                               total_score(args.top_strategies))

\* the strategy records of the returned batch, in order
C21_Survivors == SelectSeq(result.allocations, IsStrategyRecord)

\* C21 (as claimed): in the returned batch the first three surviving
\* candidates, counted among the survivors in input order, are tagged
\* TopPerformer and every later survivor RiskDiversification, whatever
\* candidates were dropped before them.
C21_TagsCountSurvivors ==
    (fn = "calculate_optimal_allocation" /\ result.ok) =>
        \A k \in 1..Len(C21_Survivors) :
            C21_Survivors[k].allocation_type =
                IF k <= 3 THEN "TopPerformer" ELSE "RiskDiversification"

\* the records and the leftover capital as the candidate loop leaves them
C22_Loop ==
    allocation_loop(args.available_capital, total_score(args.top_strategies),
                    args.risk_limits, args.top_strategies, 0,
                    fee_extraction(args.available_capital, args.risk_limits))

C22_TopPerformersOf(allocations) ==
    {i \in 1..Len(allocations) : allocations[i].allocation_type = "TopPerformer"}

C22_TopPerformers == C22_TopPerformersOf(C22_Loop.allocations)

\* C22: after the candidate loop, a leftover above 1_000_000 goes whole to
\* the first TopPerformer record when there is one, and no other record
\* changes; with a leftover at or below the dust floor, or without a
\* TopPerformer record, every record is returned as the loop left it.
C22_DustToFirstTopPerformer ==
    (fn = "calculate_optimal_allocation" /\ result.ok) =>
        LET loop == C22_Loop
            before == loop.allocations
            leftover == loop.remaining_capital
            after == result.allocations
            tops == C22_TopPerformersOf(before)
        IN  IF leftover > 1000000 /\ tops # {}
            THEN LET first == CHOOSE i \in tops : \A j \in tops : i <= j
                 IN  /\ Len(after) = Len(before)
                     /\ after[first].amount = before[first].amount + leftover
                     /\ after[first].strategy_id = before[first].strategy_id
                     /\ after[first].allocation_type = before[first].allocation_type
                     /\ \A j \in 1..Len(before) : j # first => after[j] = before[j]
            ELSE after = before

\* C22 witness: a call returned two TopPerformer records after a leftover
\* above the dust floor went to the first of them
C22_Witness ==
    /\ fn = "calculate_optimal_allocation" /\ result.ok
    /\ C22_Loop.remaining_capital > 1000000
    /\ Cardinality(C22_TopPerformers) >= 2
    /\ result.allocations # C22_Loop.allocations

\* C22 witness of the boundary: a leftover of exactly 1_000_000 is not handed
\* to the TopPerformer record that exists
C22_WitnessAtFloor ==
    /\ fn = "calculate_optimal_allocation" /\ result.ok
    /\ C22_Loop.remaining_capital = 1000000
    /\ C22_TopPerformers # {}
    /\ result.allocations = C22_Loop.allocations

\* C22 witness of the other branch: a leftover above the dust floor stays
\* unallocated because the only records are fees and RiskDiversification
C22_WitnessNoTopPerformer ==
    /\ fn = "calculate_optimal_allocation" /\ result.ok
    /\ C22_Loop.remaining_capital > 1000000
    /\ C22_TopPerformers = {}
    /\ result.allocations # <<>>

\* the strategies of the top quartile in the input
C23_Qualifying ==
    {i \in 1..Len(args.strategies) : args.strategies[i].percentile_rank >= 75}

\* the identifiers of the strategies handed to allocation
C23_Kept ==
    LET kept == top_performers_of(args.strategies)
    IN  {kept[i].strategy_id : i \in 1..Len(kept)}

\* C23 (as claimed): only strategies with percentile rank >= 75 are passed
\* to allocation, at most five of them, and they are the best: no qualifying
\* strategy left out has a higher percentile rank than one that was kept;
\* the call fails when no strategy has a rank below the portfolio threshold
\* or none has rank >= 75.
C23_KeepsTheBestFive ==
    fn = "execute_complete_rebalancing" =>
        /\ result.ok =>
              /\ C23_Kept \subseteq C23_Qualifying
              /\ Cardinality(C23_Kept) = Min(Cardinality(C23_Qualifying), 5)
              /\ \A out \in C23_Qualifying \ C23_Kept, in \in C23_Kept :
                    args.strategies[out].percentile_rank
                        <= args.strategies[in].percentile_rank
        /\ (underperformers_of(args.portfolio, args.strategies) = <<>>
              \/ C23_Qualifying = {}) => ~result.ok

\* the fee basis points of the call together are at most 10000
C24_FeesWithinCapital ==
    ToNat(args.risk_limits.platform_fee_bps) + ToNat(args.risk_limits.manager_fee_bps) <= 10000

\* C24: for risk limits whose platform and manager fee together are at most
\* 10000 basis points, the amounts returned by calculate_optimal_allocation
\* sum to no more than the available capital, after the risk adjustment of
\* up to 150% and after the dust redistribution.
C24_NoOverallocation ==
    (fn = "calculate_optimal_allocation" /\ result.ok /\ C24_FeesWithinCapital) =>
        SumAmounts(result.allocations) <= args.available_capital

\* C24 witness: a record was raised by the risk adjustment up to all the
\* capital left, and the whole capital is allocated
C24_Witness ==
    /\ fn = "calculate_optimal_allocation" /\ result.ok /\ C24_FeesWithinCapital
    /\ Len(result.allocations) >= 3
    /\ ToNat(args.risk_limits.platform_fee_bps) > 0
    /\ SumAmounts(result.allocations) = args.available_capital

\* the amount of the strategy record of candidate id, 0 when it has none
C25_AmountOf(id) ==
    LET recs == {i \in 1..Len(result.allocations) :
                    /\ IsStrategyRecord(result.allocations[i])
                    /\ result.allocations[i].strategy_id = id}
    IN  IF recs = {} THEN 0 ELSE result.allocations[CHOOSE i \in recs : TRUE].amount

\* the candidates were supplied in descending order of performance score
C25_Descending ==
    \A i \in 1..(Len(args.top_strategies) - 1) :
        args.top_strategies[i].performance_score
            >= args.top_strategies[i + 1].performance_score

\* C25 (as claimed): for candidates in descending score order, whenever at
\* least two strategy records are returned, the first candidate's amount
\* (0 without a record) is at least the second candidate's amount.
C25_HighestGetsLargest ==
    (/\ fn = "calculate_optimal_allocation" /\ result.ok
     /\ C25_Descending
     /\ Len(SelectSeq(result.allocations, IsStrategyRecord)) >= 2)
        => C25_AmountOf(1) >= C25_AmountOf(2)

\* the supplied accounts that are Active
C26_Active == {id \in DOMAIN args.strategies : args.strategies[id].status = "Active"}

\* the StrategyData of the Active accounts, in account order
C26_ActiveData ==
    LET IsActive(st) == st.status = "Active"
        active == SelectSeq(args.strategies, IsActive)
    IN  [i \in 1..Len(active) |-> from_strategy(active[i], 25)]

\* the rank calculate_percentile_rankings gives id among the Active accounts
C26_RankAmongActive(id) ==
    LET ranked == calculate_percentile_rankings(C26_ActiveData).strategies
    IN  ranked[CHOOSE i \in 1..Len(ranked) : ranked[i].strategy_id = id].percentile_rank

\* C26: execute_batch_ranking fails with InsufficientStrategies when fewer
\* than two supplied strategies are Active; on success every supplied
\* strategy that is not Active keeps its percentile_rank and last_updated,
\* and every Active one has the rank computed among the Active ones only.
C26_RanksOnlyActive ==
    fn = "execute_batch_ranking" =>
        /\ Cardinality(C26_Active) < 2 =>
              (~result.ok /\ result.err = "InsufficientStrategies")
        /\ result.ok =>
              \A id \in DOMAIN args.strategies :
                  IF id \in C26_Active
                  THEN result.strategies[id].percentile_rank = C26_RankAmongActive(id)
                  ELSE /\ result.strategies[id].percentile_rank
                             = args.strategies[id].percentile_rank
                       /\ result.strategies[id].last_updated
                             = args.strategies[id].last_updated

\* C26 witness: a ranking succeeded on two Active accounts supplied together
\* with one that is not Active and has the highest score
C26_Witness ==
    /\ fn = "execute_batch_ranking" /\ result.ok
    /\ Cardinality(C26_Active) = 2
    /\ \E id \in DOMAIN args.strategies \ C26_Active :
          \A other \in C26_Active :
              args.strategies[id].performance_score
                  > args.strategies[other].performance_score

\* the strategies given to the call have pairwise distinct identifiers
C27_DistinctIds ==
    \A i, j \in 1..Len(args.strategies) :
        args.strategies[i].strategy_id = args.strategies[j].strategy_id => i = j

\* C27 (as claimed): every redistribution_plan that
\* execute_complete_rebalancing returns for strategies with pairwise distinct
\* identifiers is accepted by validate_allocations: no target identifier
\* occurs twice in it, fee records included, and no amount is zero.
C27_PlanIsAccepted ==
    (fn = "execute_complete_rebalancing" /\ result.ok /\ C27_DistinctIds) =>
        LET plan == result.plan.redistribution_plan
        IN  /\ validate_allocations(plan).ok
            /\ \A i, j \in 1..Len(plan) :
                  plan[i].strategy_id = plan[j].strategy_id => i = j
            /\ \A i \in 1..Len(plan) : plan[i].amount > 0

\* b1 <= b2 on the two limbs of a balance
C28_BalanceLeq(b1, b2) == b1.hi < b2.hi \/ (b1.hi = b2.hi /\ b1.lo <= b2.lo)

\* C28 (as claimed): for a fixed yield rate and volatility the score is
\* non-decreasing in the balance, also across the floor of 100_000_000 where
\* the normalization passes from linear to logarithmic.
C28_MonotoneInBalance ==
    (/\ fn = "calculate_performance_score"
     /\ prev_args # <<>>
     /\ prev_args.yield_rate = args.yield_rate
     /\ prev_args.volatility = args.volatility
     /\ C28_BalanceLeq(prev_args.balance, args.balance))
        => prev_result.value <= result.value

\* C29 (as claimed): the stored performance_score of every Active strategy is
\* calculate_performance_score of its stored yield_rate, current_balance and
\* volatility_score, so that ranking never reads a stale score.
C29_StoredScoreIsFresh ==
    \A id \in DOMAIN strategies :
        LET s == strategies[id]
        IN  s.status = "Active" =>
                LET score == calculate_performance_score(
                                 s.yield_rate, Wide(s.current_balance), s.volatility_score)
                IN  score.ok /\ s.performance_score = score.value

\* C30 (as claimed): no strategy record has a final amount above
\* floor(available_capital * max_single_strategy_bps / 10000), the maximum
\* single-strategy share of the original capital, after the risk adjustment
\* and the dust redistribution.
C30_MaxShareRespected ==
    (fn = "calculate_optimal_allocation" /\ result.ok
        /\ IsSmall(args.risk_limits.max_single_strategy_bps)) =>
        LET max_single_allocation ==
                MulDiv(args.available_capital,
                       ToNat(args.risk_limits.max_single_strategy_bps), 10000)
        IN  \A i \in 1..Len(result.allocations) :
                IsStrategyRecord(result.allocations[i])
                    => result.allocations[i].amount <= max_single_allocation

====
